---- MODULE Spec2Model ----
(***************************************************************************)
(* Model of clientlibrary/worker/record-processor-checkpointer.go:         *)
(* RecordProcessorCheckpointer (Checkpoint, PrepareCheckpoint) and         *)
(* PreparedCheckpointer (GetPendingCheckpoint, Checkpoint) for one shard,  *)
(* running against a lease ledger (chk.Checkpointer) that other workers    *)
(* change concurrently, and a clock that only moves forward.               *)
(*                                                                         *)
(* A Go pointer is a sequence: <<>> is nil, <<v>> points at v.             *)
(* A Go error is a string: NilErr is the nil error.                        *)
(***************************************************************************)
EXTENDS Integers, Sequences, FiniteSets

\* ---------------------------------------------------------------- bounds
MaxTime == 3

\* ------------------------------------------------------------- constants
Nil == <<>>
NilErr == "nil"
NoRet == "running"
PanicNilDeref == "panic: nil pointer dereference"

ShutdownError == "another instance may have started processing some of these records already"
LeaseExpiredError == "the lease has on the shard has expired"

\* chk.ShardEnd, the checkpoint value of a closed shard
ShardEnd == "SHARD_END"

\* identities of the workers that may own the shard in the ledger
Workers == {"W1", "W2"}
\* the worker that holds the Shard Ownership Handle
LocalWorker == "W1"
ShardID == "shard-1"

\* sequence-position strings a caller may pass; a caller may pass any string,
\* the text of the sentinel included
SequenceNumbers == {"1", "2", "SHARD_END"}
\* the *string arguments of Checkpoint: nil or a pointer to a string
SequenceArgs == {Nil} \cup {<<s>> : s \in SequenceNumbers}

\* errors the ledger's two operations may report
LedgerErrs == {"ErrA", "ErrB"}

Times == 0..MaxTime

VARIABLES
    shard,      \* rc.shard: the Shard Ownership Handle (par.ShardStatus)
    ledger,     \* the Lease Ledger record of the shard (behind rc.checkpoint)
    now,        \* the clock read by time.Now()
    pc,         \* position of the worker inside Checkpoint
    call,       \* the Checkpoint call in progress, or the last one finished
    token,      \* the PreparedCheckpointer last returned by PrepareCheckpoint
    prep,       \* the last PrepareCheckpoint call: its argument and result
    got         \* the last GetPendingCheckpoint call and its result

vars == <<shard, ledger, now, pc, call, token, prep, got>>

\* ------------------------------------------------------ pure functions

\* aws.ToString: the string a pointer points at, "" for nil
ToString(p) == IF p = Nil THEN "" ELSE p[1]

\* After with the comparison turned round (Before)
After_Reversed(t, u) == t < u

\* time.Time.After: t is strictly after u
After(t, u) == t > u

\* Validate without the comparison of the owners
Validate_NoOwnerCheck(s, currLeaseOwner, err, t) ==
    IF err # NilErr THEN err
    ELSE IF After(t, s.LeaseTimeout) THEN LeaseExpiredError
    ELSE NilErr

\* Validate with the comparison of the owners inverted
Validate_OwnerInverted(s, currLeaseOwner, err, t) ==
    IF err # NilErr THEN err
    ELSE IF s.AssignedTo = currLeaseOwner THEN ShutdownError
    ELSE IF After(t, s.LeaseTimeout) THEN LeaseExpiredError
    ELSE NilErr

\* Validate with the lease check ahead of the comparison of the owners
Validate_LeaseFirst(s, currLeaseOwner, err, t) ==
    IF err # NilErr THEN err
    ELSE IF After(t, s.LeaseTimeout) THEN LeaseExpiredError
    ELSE IF s.AssignedTo # currLeaseOwner THEN ShutdownError
    ELSE NilErr

\* Validate that looks at the error of the query last
Validate_ErrLast(s, currLeaseOwner, err, t) ==
    IF s.AssignedTo # currLeaseOwner THEN ShutdownError
    ELSE IF After(t, s.LeaseTimeout) THEN LeaseExpiredError
    ELSE err

\* lines 80-88: the error Checkpoint returns before touching the handle,
\* NilErr when all three checks pass
Validate(s, currLeaseOwner, err, t) ==
    IF err # NilErr THEN err
    ELSE IF s.AssignedTo # currLeaseOwner THEN ShutdownError
    ELSE IF After(t, s.LeaseTimeout) THEN LeaseExpiredError
    ELSE NilErr

\* NewCheckpoint without the branch for a closed shard
NewCheckpoint_NoSentinel(sequenceNumber) == ToString(sequenceNumber)

\* NewCheckpoint with the two branches exchanged
NewCheckpoint_Swapped(sequenceNumber) ==
    IF sequenceNumber # Nil THEN ShardEnd ELSE ToString(sequenceNumber)

\* lines 90-94: the value Checkpoint hands to shard.SetCheckpoint
NewCheckpoint(sequenceNumber) ==
    IF sequenceNumber = Nil THEN ShardEnd ELSE ToString(sequenceNumber)

\* par.ShardStatus.SetCheckpoint
SetCheckpoint(s, c) == [s EXCEPT !.Checkpoint = c]

\* the error of the persist dropped
PersistResult_Swallowed(persistErr) == NilErr

\* the error of the persist replaced by an error of Checkpoint's own
PersistResult_Wrapped(persistErr) ==
    IF persistErr = NilErr THEN NilErr ELSE "checkpoint failed"

\* line 96: the error of the persist is the result of Checkpoint
PersistResult(persistErr) == persistErr

\* lines 77-97 as one function: the result of Checkpoint(sequenceNumber) on
\* handle s and ledger record l at time t, when the ledger answers the query
\* with error queryErr and the persist with error persistErr
CheckpointOutcome(s, l, t, sequenceNumber, queryErr, persistErr) ==
    LET currLeaseOwner == IF queryErr = NilErr THEN l.owner ELSE ""
        r == Validate(s, currLeaseOwner, queryErr, t)
        s2 == SetCheckpoint(s, NewCheckpoint(sequenceNumber))
    IN  IF r # NilErr
        THEN [ret |-> r, shard |-> s, ledger |-> l]
        ELSE [ret |-> PersistResult(persistErr), shard |-> s2,
              ledger |-> IF persistErr = NilErr
                         THEN [l EXCEPT !.checkpoint = s2.Checkpoint]
                         ELSE l]

\* --------------------------------------------------------------- state

NoCall ==
    [via |-> "none", arg |-> Nil, prev |-> "",
     queries |-> 0, currLeaseOwner |-> "", err |-> NilErr,
     ownerAtQuery |-> "", checkedAt |-> -1,
     persists |-> 0, ownerAtPersist |-> "", valueAtPersist |-> "",
     persistErr |-> NilErr, ret |-> NoRet,
     repeat |-> FALSE, afterExpired |-> FALSE]

\* NewRecordProcessorCheckpoint(shard, checkpoint): the handle was assigned to
\* the local worker by the lease subsystem; the ledger may already name
\* another owner
Init ==
    /\ \E lt \in Times :
         shard = [ID |-> ShardID, AssignedTo |-> LocalWorker,
                  LeaseTimeout |-> lt, Checkpoint |-> ""]
    /\ \E w \in Workers : ledger = [owner |-> w, checkpoint |-> ""]
    /\ now = 0
    /\ pc = "idle"
    /\ call = NoCall
    /\ token = Nil
    /\ prep = [called |-> FALSE, arg |-> Nil, err |-> NilErr, ledgerCalls |-> 0]
    /\ got = [called |-> FALSE, value |-> Nil, count |-> 0]

\* --------------------------------------------------------- environment

\* time passes
Tick ==
    /\ now < MaxTime
    /\ now' = now + 1
    /\ UNCHANGED <<shard, ledger, pc, call, token, prep, got>>

\* another worker's lease subsystem rewrites the owner of the shard
LeaseTaken ==
    /\ \E w \in Workers \ {ledger.owner} :
         ledger' = [ledger EXCEPT !.owner = w]
    /\ UNCHANGED <<shard, now, pc, call, token, prep, got>>

\* ------------------------------------------- RecordProcessorCheckpointer

\* some call on this handle has returned LeaseExpired
SeenExpired == call.afterExpired \/ call.ret = LeaseExpiredError

\* entry of rc.Checkpoint(sequenceNumber): the worker issues GetLeaseOwner;
\* repeat notes that the call before was a successful Checkpoint of the same
\* position, afterExpired that an earlier call returned LeaseExpired
StartCheckpoint(via, sequenceNumber) ==
    /\ pc' = "GetLeaseOwner"
    /\ call' = [NoCall EXCEPT !.via = via, !.arg = sequenceNumber,
                              !.prev = shard.Checkpoint,
                              !.repeat = /\ call.via = "Checkpoint"
                                         /\ call.ret = NilErr
                                         /\ call.arg = sequenceNumber,
                              !.afterExpired = SeenExpired]

Checkpoint ==
    /\ pc = "idle"
    /\ \E sequenceNumber \in SequenceArgs :
         StartCheckpoint("Checkpoint", sequenceNumber)
    /\ UNCHANGED <<shard, ledger, now, token, prep, got>>

\* GetLeaseOwner asked a second time when the first answer is an error
GetLeaseOwner_Retry ==
    /\ pc = "GetLeaseOwner"
    /\ \E e \in {NilErr} \cup LedgerErrs :
         /\ call' = [call EXCEPT !.queries = @ + 1,
                                 !.ownerAtQuery = ledger.owner,
                                 !.currLeaseOwner = IF e = NilErr THEN ledger.owner ELSE "",
                                 !.err = e]
         /\ pc' = IF e # NilErr /\ call.queries = 0
                  THEN "GetLeaseOwner" ELSE "Validate"
    /\ UNCHANGED <<shard, ledger, now, token, prep, got>>

\* line 79: the ledger answers with its recorded owner, or with an error
GetLeaseOwner ==
    /\ pc = "GetLeaseOwner"
    /\ \E e \in {NilErr} \cup LedgerErrs :
         call' = [call EXCEPT !.queries = @ + 1,
                              !.ownerAtQuery = ledger.owner,
                              !.currLeaseOwner = IF e = NilErr THEN ledger.owner ELSE "",
                              !.err = e]
    /\ pc' = "Validate"
    /\ UNCHANGED <<shard, ledger, now, token, prep, got>>

\* CheckpointValidate that sets the checkpoint of the handle before the
\* checks instead of after them
CheckpointValidate_SetFirst ==
    /\ pc = "Validate"
    /\ shard' = SetCheckpoint(shard, NewCheckpoint(call.arg))
    /\ LET r == Validate(shard, call.currLeaseOwner, call.err, now) IN
         IF r # NilErr
         THEN /\ call' = [call EXCEPT !.checkedAt = now, !.ret = r]
              /\ pc' = "idle"
         ELSE /\ call' = [call EXCEPT !.checkedAt = now,
                                      !.persists = @ + 1,
                                      !.ownerAtPersist = ledger.owner,
                                      !.valueAtPersist = shard'.Checkpoint]
              /\ pc' = "CheckpointSequence"
    /\ UNCHANGED <<ledger, now, token, prep, got>>

\* CheckpointValidate that writes a position only once: when the handle
\* already holds the requested value it returns nil without a persist
CheckpointValidate_SkipUnchanged ==
    /\ pc = "Validate"
    /\ LET r == Validate(shard, call.currLeaseOwner, call.err, now) IN
         IF r # NilErr \/ NewCheckpoint(call.arg) = shard.Checkpoint
         THEN /\ call' = [call EXCEPT !.checkedAt = now, !.ret = r]
              /\ pc' = "idle"
              /\ UNCHANGED shard
         ELSE /\ shard' = SetCheckpoint(shard, NewCheckpoint(call.arg))
              /\ call' = [call EXCEPT !.checkedAt = now,
                                      !.persists = @ + 1,
                                      !.ownerAtPersist = ledger.owner,
                                      !.valueAtPersist = shard'.Checkpoint]
              /\ pc' = "CheckpointSequence"
    /\ UNCHANGED <<ledger, now, token, prep, got>>

\* lines 80-96: the three checks, then SetCheckpoint and the call of
\* CheckpointSequence
CheckpointValidate ==
    /\ pc = "Validate"
    /\ LET r == Validate(shard, call.currLeaseOwner, call.err, now) IN
         IF r # NilErr
         THEN /\ call' = [call EXCEPT !.checkedAt = now, !.ret = r]
              /\ pc' = "idle"
              /\ UNCHANGED shard
         ELSE /\ shard' = SetCheckpoint(shard, NewCheckpoint(call.arg))
              /\ call' = [call EXCEPT !.checkedAt = now,
                                      !.persists = @ + 1,
                                      !.ownerAtPersist = ledger.owner,
                                      !.valueAtPersist = shard'.Checkpoint]
              /\ pc' = "CheckpointSequence"
    /\ UNCHANGED <<ledger, now, token, prep, got>>

\* line 96: the ledger persists the handle's checkpoint, or reports an error
CheckpointSequence ==
    /\ pc = "CheckpointSequence"
    /\ \E e \in {NilErr} \cup LedgerErrs :
         /\ ledger' = IF e = NilErr
                      THEN [ledger EXCEPT !.checkpoint = shard.Checkpoint]
                      ELSE ledger
         /\ call' = [call EXCEPT !.persistErr = e, !.ret = PersistResult(e)]
    /\ pc' = "idle"
    /\ UNCHANGED <<shard, now, token, prep, got>>

\* PrepareCheckpoint validating the ownership at once: it asks the ledger
\* for the owner and refuses with Shutdown when the handle is stale
PrepareCheckpoint_Validating ==
    /\ pc = "idle"
    /\ \E sequenceNumber \in SequenceArgs :
         prep' = [called |-> TRUE, arg |-> sequenceNumber,
                  err |-> IF ledger.owner # shard.AssignedTo
                          THEN ShutdownError ELSE NilErr,
                  ledgerCalls |-> 1]
    /\ token' = <<[pendingCheckpointSequenceNumber |-> Nil, checkpointer |-> Nil]>>
    /\ got' = [called |-> FALSE, value |-> Nil, count |-> 0]
    /\ UNCHANGED <<shard, ledger, now, pc, call>>

\* lines 99-101: the argument is dropped and an empty token is returned with
\* a nil error; neither GetLeaseOwner nor CheckpointSequence is called
PrepareCheckpoint ==
    /\ pc = "idle"
    /\ \E sequenceNumber \in SequenceArgs :
         prep' = [called |-> TRUE, arg |-> sequenceNumber, err |-> NilErr,
                  ledgerCalls |-> 0]
    /\ token' = <<[pendingCheckpointSequenceNumber |-> Nil, checkpointer |-> Nil]>>
    /\ got' = [called |-> FALSE, value |-> Nil, count |-> 0]
    /\ UNCHANGED <<shard, ledger, now, pc, call>>

\* -------------------------------------------------- PreparedCheckpointer

\* lines 69-71
GetPendingCheckpoint ==
    /\ pc = "idle"
    /\ token # Nil
    /\ got.count < 2
    /\ got' = [called |-> TRUE,
               value |-> token[1].pendingCheckpointSequenceNumber,
               count |-> got.count + 1]
    /\ UNCHANGED <<shard, ledger, now, pc, call, token, prep>>

\* lines 73-75: pc.checkpointer.Checkpoint(pc.pendingCheckpointSequenceNumber
\* .SequenceNumber); reading a field through a nil pointer, or calling a
\* method of a nil interface, panics
PreparedCheckpoint ==
    /\ pc = "idle"
    /\ token # Nil
    /\ IF token[1].pendingCheckpointSequenceNumber = Nil
          \/ token[1].checkpointer = Nil
       THEN /\ call' = [NoCall EXCEPT !.via = "Commit",
                                      !.prev = shard.Checkpoint,
                                      !.afterExpired = SeenExpired,
                                      !.ret = PanicNilDeref]
            /\ pc' = "idle"
       ELSE StartCheckpoint("Commit",
                token[1].pendingCheckpointSequenceNumber[1].SequenceNumber)
    /\ UNCHANGED <<shard, ledger, now, token, prep, got>>

Next ==
    \/ Tick
    \/ LeaseTaken
    \/ Checkpoint
    \/ GetLeaseOwner
    \/ CheckpointValidate
    \/ CheckpointSequence
    \/ PrepareCheckpoint
    \/ GetPendingCheckpoint
    \/ PreparedCheckpoint

Spec == Init /\ [][Next]_vars

TypeOK ==
    /\ shard.Checkpoint \in {""} \cup SequenceNumbers \cup {ShardEnd}
    /\ ledger.owner \in Workers
    /\ now \in Times
    /\ pc \in {"idle", "GetLeaseOwner", "Validate", "CheckpointSequence"}

\* ------------------------------------------------------------ properties

\* the call recorded in `call` has returned
Returned == call.ret # NoRet

\* the checkpoint value a call asks for: the sentinel for an absent position
Requested(arg) == IF arg = Nil THEN ShardEnd ELSE arg[1]

\* sequence-position order, the shard-end sentinel above every position and
\* the empty checkpoint of a fresh handle below every position
SeqRank(c) ==
    CASE c = "" -> 0
      [] c = "1" -> 1
      [] c = "2" -> 2
      [] c = ShardEnd -> 3

\* the query of the call answered with an owner, and that owner is the
\* handle's
OwnerMatched ==
    /\ call.queries = 1
    /\ call.err = NilErr
    /\ call.currLeaseOwner = shard.AssignedTo

\* C1 (as stated): whenever Checkpoint invokes CheckpointSequence, the owner
\* the ledger records at that moment is the owner held in the handle.
C1_LedgerOwnerAtPersist ==
    call.persists > 0 => call.ownerAtPersist = shard.AssignedTo

\* C1 (amended): whenever Checkpoint invokes CheckpointSequence, the owner
\* that GetLeaseOwner returned earlier in the same call is the owner held in
\* the handle; the ledger's owner may have changed since the query.
C1_QueriedOwnerAtPersist ==
    /\ call.persists > 0 => OwnerMatched
    /\ pc = "CheckpointSequence" => call.persists = 1

\* C1 witness: a persist was invoked after another worker took the lease
C1_Witness ==
    /\ call.persists = 1
    /\ OwnerMatched
    /\ call.ownerAtPersist # shard.AssignedTo

\* C2: over any sequence of Checkpoint calls the handle's checkpoint value
\* (the value handed to the persist) never decreases in sequence-position
\* order, the sentinel being the greatest.
C2_NeverBackward ==
    [][SeqRank(shard'.Checkpoint) >= SeqRank(shard.Checkpoint)]_vars

\* C3: when the owner returned by GetLeaseOwner differs from the handle's
\* owner, Checkpoint returns Shutdown and never invokes the persist.
C3_OwnerMismatchShutdown ==
    (call.queries = 1 /\ call.err = NilErr
        /\ call.currLeaseOwner # shard.AssignedTo)
    => /\ call.persists = 0
       /\ pc # "CheckpointSequence"
       /\ shard.Checkpoint = call.prev
       /\ Returned => call.ret = ShutdownError

\* C3 witness: a call returned Shutdown on a mismatching owner
C3_Witness ==
    /\ call.ret = ShutdownError
    /\ call.err = NilErr
    /\ call.currLeaseOwner # shard.AssignedTo
    /\ call.arg # Nil

\* C4 (as stated): owner matches and the expiry is at or before the current
\* time, the boundary included: Checkpoint returns LeaseExpired, no persist.
C4_ExpiredAtOrBefore ==
    (OwnerMatched /\ call.checkedAt >= 0
        /\ shard.LeaseTimeout <= call.checkedAt)
    => /\ call.ret = LeaseExpiredError
       /\ call.persists = 0

\* C4 (amended): owner matches and the expiry is strictly before the current
\* time: Checkpoint returns LeaseExpired, no persist; when the expiry equals
\* the current time the lease still holds and the persist is invoked.
C4_ExpiredStrictlyBefore ==
    /\ (OwnerMatched /\ call.checkedAt >= 0
           /\ shard.LeaseTimeout < call.checkedAt)
       => /\ call.ret = LeaseExpiredError
          /\ call.persists = 0
          /\ shard.Checkpoint = call.prev
    /\ (OwnerMatched /\ call.checkedAt >= 0
           /\ shard.LeaseTimeout = call.checkedAt)
       => /\ call.ret # LeaseExpiredError
          /\ call.persists = 1

\* C4 witness: a call returned LeaseExpired with matching owners
C4_Witness ==
    /\ call.ret = LeaseExpiredError
    /\ OwnerMatched
    /\ shard.LeaseTimeout < call.checkedAt

\* C5 (as stated): owner of the ledger equal to the handle's and lease not
\* expired: Checkpoint(p), p concrete, succeeds and the handle's checkpoint
\* is p.
C5_ValidLeaseSucceeds ==
    (Returned /\ call.via = "Checkpoint" /\ call.arg # Nil
        /\ call.ownerAtQuery = shard.AssignedTo
        /\ shard.LeaseTimeout > call.checkedAt)
    => /\ call.ret = NilErr
       /\ shard.Checkpoint = call.arg[1]

\* C5 (amended): as C5, provided the owner query and the persist report no
\* failure; the handle's checkpoint is p as soon as both checks have passed.
C5_ValidLeaseAndLedgerSucceeds ==
    /\ (Returned /\ call.arg # Nil /\ OwnerMatched
           /\ shard.LeaseTimeout >= call.checkedAt
           /\ call.persistErr = NilErr)
       => /\ call.ret = NilErr
          /\ shard.Checkpoint = call.arg[1]
          /\ call.valueAtPersist = call.arg[1]
    /\ (call.checkedAt >= 0 /\ call.arg # Nil /\ OwnerMatched
           /\ shard.LeaseTimeout >= call.checkedAt)
       => shard.Checkpoint = call.arg[1]

\* C5 witness: a successful Checkpoint of a concrete position that moved
\* the handle
C5_Witness ==
    /\ call.via = "Checkpoint"
    /\ call.ret = NilErr
    /\ call.arg # Nil
    /\ shard.Checkpoint = call.arg[1]
    /\ call.prev # call.arg[1]

\* the four failures of Checkpoint, told apart by the path of the call
QueryFailure ==
    call.err # NilErr /\ call.ret = call.err /\ call.persists = 0
ShutdownFailure ==
    call.err = NilErr /\ call.ret = ShutdownError /\ call.persists = 0
LeaseExpiredFailure ==
    call.err = NilErr /\ call.ret = LeaseExpiredError /\ call.persists = 0
PersistFailure ==
    /\ call.err = NilErr /\ call.persists = 1
    /\ call.persistErr # NilErr /\ call.ret = call.persistErr

FailureKinds ==
    {k \in {"query", "shutdown", "expired", "persist"} :
        \/ k = "query" /\ QueryFailure
        \/ k = "shutdown" /\ ShutdownFailure
        \/ k = "expired" /\ LeaseExpiredFailure
        \/ k = "persist" /\ PersistFailure}

\* C6: a Checkpoint call returns success only if it invoked the persist with
\* the handle's checkpoint set to the requested position and the persist
\* succeeded; otherwise it returns exactly one of the four failures.
C6_SuccessOrOneFailure ==
    (Returned /\ call.via = "Checkpoint")
    => /\ call.ret = NilErr =>
            /\ call.persists = 1
            /\ call.persistErr = NilErr
            /\ call.valueAtPersist = Requested(call.arg)
            /\ shard.Checkpoint = Requested(call.arg)
       /\ call.ret # NilErr => Cardinality(FailureKinds) = 1

\* C6 witness: a Checkpoint that returned the failure of the persist
C6_Witness ==
    /\ call.via = "Checkpoint"
    /\ Returned
    /\ FailureKinds = {"persist"}

\* C7: when GetLeaseOwner fails, Checkpoint returns that failure unchanged,
\* invokes no persist and evaluates neither the owner nor the lease check.
C7_QueryFailurePropagates ==
    (call.queries = 1 /\ call.err # NilErr)
    => /\ call.persists = 0
       /\ pc # "CheckpointSequence"
       /\ shard.Checkpoint = call.prev
       /\ Returned => call.ret = call.err

\* C7 witness: a failed query on a handle both stale and expired
C7_Witness ==
    /\ Returned
    /\ call.err \in LedgerErrs
    /\ call.ret = call.err
    /\ call.ownerAtQuery # shard.AssignedTo
    /\ shard.LeaseTimeout < call.checkedAt

\* C8: when both checks pass and the persist fails, Checkpoint returns the
\* failure of the persist unchanged, and the handle's checkpoint stays at the
\* requested position (the sentinel for an absent one).
C8_PersistFailureKeepsAdvance ==
    (Returned /\ call.persists = 1 /\ call.persistErr # NilErr)
    => /\ call.ret = call.persistErr
       /\ shard.Checkpoint = Requested(call.arg)
       /\ call.valueAtPersist = Requested(call.arg)

\* C8 witness: the persist failed and the handle is ahead of its old value
C8_Witness ==
    /\ Returned
    /\ call.persists = 1
    /\ call.persistErr \in LedgerErrs
    /\ shard.Checkpoint # call.prev
    /\ shard.Checkpoint = Requested(call.arg)

\* C9: GetPendingCheckpoint on the token returned by PrepareCheckpoint(p)
\* returns the pinned position p, however often it is called.
C9_PendingIsPinned ==
    got.called =>
        /\ got.value # Nil
        /\ got.value[1].SequenceNumber = prep.arg

\* C10: Commit on the token of PrepareCheckpoint(p) returns what a direct
\* Checkpoint(p) at commit time returns, and leaves the same handle and
\* ledger.
C10_CommitIsCheckpoint ==
    [][(PreparedCheckpoint /\ pc' = "idle")
        => \E qe \in {NilErr} \cup LedgerErrs, pe \in {NilErr} \cup LedgerErrs :
             LET o == CheckpointOutcome(shard, ledger, now, prep.arg, qe, pe)
             IN  /\ call'.ret = o.ret
                 /\ shard' = o.shard
                 /\ ledger' = o.ledger]_vars

\* C11: PrepareCheckpoint calls neither GetLeaseOwner nor CheckpointSequence,
\* returns a token and a nil error whatever the owner and the lease are, and
\* leaves the handle, the ledger record and the Checkpoint in `call` as they
\* were.
C11_PrepareTouchesNothing ==
    [][PrepareCheckpoint
        => /\ prep'.ledgerCalls = 0
           /\ prep'.err = NilErr
           /\ token' # Nil
           /\ shard' = shard
           /\ ledger' = ledger
           /\ call' = call
           /\ pc' = pc]_vars

\* C11 witness: a token prepared on a stale, expired handle and never
\* committed, handle and ledger still as constructed
C11_Witness ==
    /\ prep.called
    /\ prep.err = NilErr
    /\ token # Nil
    /\ ledger.owner # shard.AssignedTo
    /\ now > shard.LeaseTimeout
    /\ call = NoCall
    /\ shard.Checkpoint = ""
    /\ ledger.checkpoint = ""

\* C12 (as stated): Checkpoint(absent) on a valid lease sets the handle's
\* checkpoint to the shard-end sentinel, and Checkpoint(p) never does so for
\* a concrete string p.
C12_SentinelDistinct ==
    /\ (call.persists = 1 /\ call.arg = Nil) => shard.Checkpoint = ShardEnd
    /\ (call.persists = 1 /\ call.arg # Nil) => shard.Checkpoint # ShardEnd

\* C12 (amended): Checkpoint(absent) on a valid lease sets the handle's
\* checkpoint to the shard-end sentinel; Checkpoint(p) leaves a different
\* value for every concrete p except the text of the sentinel itself, which
\* is stored as given and leaves the same state as Checkpoint(absent).
C12_SentinelDistinctFromOtherText ==
    /\ (call.persists = 1 /\ call.arg = Nil) => shard.Checkpoint = ShardEnd
    /\ (call.persists = 1 /\ call.arg # Nil)
       => (shard.Checkpoint = ShardEnd <=> call.arg[1] = ShardEnd)

\* C12 witness: a successful Checkpoint(absent) moved the handle to the
\* sentinel
C12_Witness ==
    /\ call.via = "Checkpoint"
    /\ call.arg = Nil
    /\ call.ret = NilErr
    /\ call.prev # ShardEnd
    /\ shard.Checkpoint = ShardEnd

C14_CommitRevalidates ==
    (call.via = "Commit" /\ Returned)
    => /\ call.queries = 1
       /\ call.ret \in {NilErr, ShutdownError, LeaseExpiredError} \cup LedgerErrs
       /\ call.ret = NilErr => call.persists = 1
       /\ call.ret = ShutdownError => call.currLeaseOwner # shard.AssignedTo
       /\ call.ret = LeaseExpiredError => call.checkedAt > shard.LeaseTimeout

\* C15: within one Checkpoint call GetLeaseOwner is invoked exactly once and
\* first, the checks follow it, CheckpointSequence is invoked at most once
\* and only after both checks passed, and no failed query or persist is
\* attempted again.
C15_QueryOnceThenPersistAtMostOnce ==
    call.via = "Checkpoint"
    => /\ call.queries <= 1
       /\ call.persists <= 1
       /\ pc = "GetLeaseOwner"
            => call.queries = 0 /\ call.checkedAt = -1 /\ call.persists = 0
       /\ pc = "Validate"
            => call.queries = 1 /\ call.checkedAt = -1 /\ call.persists = 0
       /\ call.checkedAt >= 0 => call.queries = 1
       /\ call.persists = 1
            => /\ OwnerMatched
               /\ call.checkedAt >= 0
               /\ shard.LeaseTimeout >= call.checkedAt
       /\ Returned => call.queries = 1
       /\ (Returned /\ call.err # NilErr) => call.persists = 0
       /\ (Returned /\ call.persistErr # NilErr) => call.persists = 1

\* C15 witness: a call whose persist failed returned after one query and
\* one persist
C15_Witness ==
    /\ call.via = "Checkpoint"
    /\ Returned
    /\ call.persistErr \in LedgerErrs
    /\ call.queries = 1
    /\ call.persists = 1

\* C16: with the owner of the ledger different from the handle's and the
\* lease expired as well, Checkpoint returns Shutdown, not LeaseExpired;
\* LeaseExpired is returned only after a successful query with matching
\* owners.
C16_OwnerCheckBeforeLeaseCheck ==
    /\ (call.queries = 1 /\ call.err = NilErr
           /\ call.currLeaseOwner # shard.AssignedTo
           /\ call.checkedAt > shard.LeaseTimeout)
       => call.ret = ShutdownError
    /\ call.ret = LeaseExpiredError
       => OwnerMatched /\ call.checkedAt > shard.LeaseTimeout

\* C16 witness: Shutdown returned on a handle both stale and expired
C16_Witness ==
    /\ call.ret = ShutdownError
    /\ call.currLeaseOwner # shard.AssignedTo
    /\ call.checkedAt > shard.LeaseTimeout

\* C17: no step changes the handle's shard identifier, owner or lease
\* expiry; the checkpoint value changes only in a Checkpoint whose query
\* succeeded with matching owners on an unexpired lease; after a call that
\* returned without a persist the checkpoint is what it was before the call.
C17_OnlyCheckpointOnlyWhenValid ==
    [][/\ shard'.ID = shard.ID
       /\ shard'.AssignedTo = shard.AssignedTo
       /\ shard'.LeaseTimeout = shard.LeaseTimeout
       /\ shard'.Checkpoint # shard.Checkpoint
            => /\ pc = "Validate"
               /\ OwnerMatched
               /\ now <= shard.LeaseTimeout
       /\ (call'.ret # NoRet /\ call'.persists = 0)
            => shard'.Checkpoint = call'.prev]_vars

\* C17 witness: a checkpoint set by an earlier call survived a call that
\* returned LeaseExpired
C17_Witness ==
    /\ call.ret = LeaseExpiredError
    /\ call.prev # ""
    /\ shard.Checkpoint = call.prev
    /\ shard.AssignedTo = LocalWorker

\* C18: the clock only moves forward and nothing renews the handle: once a
\* call has returned LeaseExpired, no later Checkpoint invokes the persist
\* or succeeds; each returns LeaseExpired, Shutdown or the error of the
\* owner query.
C18_ExpiredStaysExpired ==
    call.afterExpired
    => /\ call.persists = 0
       /\ pc # "CheckpointSequence"
       /\ (Returned /\ call.via = "Checkpoint")
            => \/ call.ret \in {LeaseExpiredError, ShutdownError}
               \/ call.err # NilErr /\ call.ret = call.err

\* C18 witness: a later Checkpoint, owners still matching, returned
\* LeaseExpired again
C18_Witness ==
    /\ call.afterExpired
    /\ call.via = "Checkpoint"
    /\ OwnerMatched
    /\ call.ret = LeaseExpiredError
====
